---- MODULE Spec2Model ----
(***************************************************************************)
(* Model of the Steam Market weapon-case price scraper                     *)
(* (src/case-prices-steam-data/steam_weapon_cases_scraper.py).             *)
(*                                                                         *)
(* One run of SteamMarketWeaponCasesScraper.scrape_multiple_pages: the     *)
(* listing pages are enumerated and merged, then every entry is fetched    *)
(* by get_price_history (with its 429 backoff), decoded by                 *)
(* extract_from_page_source, accumulated, sorted and written to the CSV.   *)
(* Instants are whole hours counted from 2024-01-01 00:00; prices are in   *)
(* cents.                                                                  *)
(*                                                                         *)
(* The tournament scraper (src/event-data/event_scraping.py) is modelled   *)
(* in the second half: parse_date_range on its own (ParseSpec) and one run *)
(* of its main (EventSpec).                                                *)
(***************************************************************************)
EXTENDS Integers, Sequences, FiniteSets, Bags, TLC

VARIABLES
    pc,             \* position of the run inside scrape_multiple_pages
    one_year_ago,   \* self.one_year_ago
    num_pages,      \* len(page_urls)
    page_num,       \* loop variable of the page loop
    all_items,      \* list of {'name', 'url'}
    listing,        \* items each page returned, kept during the page loop
    page_statuses,  \* outcome of each page fetch, kept during the page loop
    idx,            \* loop variable of the entry loop
    retry_count,    \* argument of the current get_price_history invocation
    statuses,       \* responses received by the current top-level call, in order
    sleeps,         \* backoff sleeps (seconds) of the current top-level call
    cooldowns,      \* number of post-success 1-2s sleeps of the current call
    html,           \* text of the last 200 response of the current call
    price_data,     \* value returned by the current top-level call
    all_price_data, \* accumulated observations
    scraped_items,  \* identifiers processed successfully
    file,           \* the CSV: whether it exists and its rows
    wbuf,           \* rows of the frame being written by to_csv
    saving,         \* which to_csv is in progress: "none", "progressive", "final"
    prev_snapshot,  \* file as it was when the last to_csv began
    progressive,    \* rows of the last completed progressive write
    writes,         \* number of completed to_csv calls
    alive,          \* FALSE once the process has been terminated
    result          \* return value of scrape_multiple_pages

\* One run of main() of src/event-data/event_scraping.py.
VARIABLES
    ev_pc,          \* position of the run inside main()
    ev_start,       \* instant at which main() was entered
    ev_now,         \* what datetime.now() returns at this point of the run
    tournament_rows,        \* the gridRow elements of the fetched page
    tournaments,    \* list returned by scrape_tournaments
    shown_one_year_ago,     \* one_year_ago of main (line 188)
    filter_one_year_ago,    \* one_year_ago of filter_last_year (line 157)
    last_year_tournaments,  \* list returned by filter_last_year
    csv,            \* rows written by df_to_save.to_csv, "none" before
    ev_error        \* the exception that ended the run, "" if none

\* One call of parse_date_range of src/event-data/event_scraping.py.
VARIABLES
    date_str,       \* the argument
    parse_pc,       \* "call" before the call, "done" after it
    parsed          \* the pair returned

vars == <<pc, one_year_ago, num_pages, page_num, all_items, listing,
          page_statuses, idx, retry_count, statuses, sleeps, cooldowns,
          html, price_data, all_price_data,
          scraped_items, file, wbuf, saving, prev_snapshot, progressive,
          writes, alive, result,
          ev_pc, ev_start, ev_now, tournament_rows, tournaments,
          shown_one_year_ago, filter_one_year_ago, last_year_tournaments,
          csv, ev_error, date_str, parse_pc, parsed>>

scraper_vars == <<pc, one_year_ago, num_pages, page_num, all_items, listing,
                  page_statuses, idx, retry_count, statuses, sleeps,
                  cooldowns, html, price_data, all_price_data, scraped_items,
                  file, wbuf, saving, prev_snapshot, progressive, writes,
                  alive, result>>
event_vars == <<ev_pc, ev_start, ev_now, tournament_rows, tournaments,
                shown_one_year_ago, filter_one_year_ago,
                last_year_tournaments, csv, ev_error>>
parse_vars == <<date_str, parse_pc, parsed>>

(***************************************************************************)
(* Bounds of the model.                                                    *)
(***************************************************************************)
MaxPages == 2        \* longest page_urls list
MaxPageItems == 2    \* most anchors on one listing page
MaxTuples == 2       \* most raw tuples in one line1 array

(***************************************************************************)
(* Program constants.                                                      *)
(***************************************************************************)
rate_limit_backoff == 60
max_retries == 3
WindowDays == 365

\* Run start (datetime.now() in __init__): 2025-05-15 12:00, in hours since
\* 2024-01-01 00:00.
RunStart == 500 * 24 + 12

\* Python values that are either None or a list.
None == [is_none |-> TRUE, rows |-> <<>>]
List(rows) == [is_none |-> FALSE, rows |-> rows]

\* Truth value of such a value in an if: None and [] are false.
Truthy(v) == ~v.is_none /\ v.rows # <<>>

(***************************************************************************)
(* Listing pages: the anchors a page can carry, and the name that          *)
(* get_items_from_page derives from an anchor's href.                      *)
(***************************************************************************)
Names == {"Chroma Case", "Falchion Case"}

\* Python's string order on the identifiers (what sort_values compares).
NameRank(n) ==
    CASE n = "Chroma Case" -> 1
      [] n = "Falchion Case" -> 2

Hrefs ==
    { "https://steamcommunity.com/market/listings/730/Chroma%20Case",
      "https://steamcommunity.com/market/listings/730/Chroma%20Case?filter=new",
      "https://steamcommunity.com/market/listings/730/Falchion%20Case",
      "https://steamcommunity.com/market/listings/570/Treasure",
      "https://steamcommunity.com/market/search?appid=730" }

\* '/market/listings/' in item_url
HasListingPath(href) == href # "https://steamcommunity.com/market/search?appid=730"

\* item_url.split('/market/listings/' + str(app_id) + '/')[1] raises IndexError
SplitRaises(href) == href = "https://steamcommunity.com/market/listings/570/Treasure"

\* unquote(...) with the query string cut off
ItemName(href) ==
    CASE href = "https://steamcommunity.com/market/listings/730/Chroma%20Case"
            -> "Chroma Case"
      [] href = "https://steamcommunity.com/market/listings/730/Chroma%20Case?filter=new"
            -> "Chroma Case"
      [] href = "https://steamcommunity.com/market/listings/730/Falchion%20Case"
            -> "Falchion Case"

\* Sequences over S of length at most n.
SeqUpTo(S, n) == UNION {[1..k -> S] : k \in 0..n}

\* The for-loop of get_items_from_page over the anchors found on a page.
RECURSIVE ParseAnchors(_)
ParseAnchors(anchors) ==
    IF anchors = <<>> THEN <<>>
    ELSE LET href == Head(anchors)
             rest == ParseAnchors(Tail(anchors))
         IN  IF HasListingPath(href) /\ ~SplitRaises(href)
             THEN <<[name |-> ItemName(href), url |-> href]>> \o rest
             ELSE rest

\* What a listing-page fetch can yield: a status with the anchors of the
\* page, or an exception raised by session.get.
PageResponses ==
    [kind : {"response"}, status : {200, 500},
     anchors : SeqUpTo(Hrefs, MaxPageItems)]
    \cup [kind : {"exception"}, status : {0}, anchors : {<<>>}]

\* The status a page fetch answered with, 0 for a fetch that raised.
PageOutcome(resp) == IF resp.kind = "exception" THEN 0 ELSE resp.status

\* Lines 60-100 without the test of line 60: any answer is parsed.
get_items_from_any_page(resp) ==
    IF resp.kind = "exception" THEN <<>> ELSE ParseAnchors(resp.anchors)

get_items_from_page(resp) ==
    IF resp.kind = "exception" THEN <<>>
    ELSE IF resp.status = 200 THEN ParseAnchors(resp.anchors)
    ELSE <<>>

\* Lines 259-264 without line 264: names added from the page are not noted.
RECURSIVE NewItemsNoAdd(_, _)
NewItemsNoAdd(items, existing_names) ==
    IF items = <<>> THEN <<>>
    ELSE LET item == Head(items)
         IN  IF item.name \notin existing_names
             THEN <<item>> \o NewItemsNoAdd(Tail(items), existing_names)
             ELSE NewItemsNoAdd(Tail(items), existing_names)

\* Lines 259-264: the items of one page whose name is not yet known.
RECURSIVE NewItems(_, _)
NewItems(items, existing_names) ==
    IF items = <<>> THEN <<>>
    ELSE LET item == Head(items)
         IN  IF item.name \notin existing_names
             THEN <<item>>
                  \o NewItems(Tail(items), existing_names \cup {item.name})
             ELSE NewItems(Tail(items), existing_names)

ItemNames(items) == {items[i].name : i \in 1..Len(items)}

\* Lines 257-266 without the test of line 262.
MergePageNoDedup(items, acc) == acc \o items

\* Lines 257-266: merge one page's items into all_items.
MergePage(items, acc) ==
    IF items # <<>> THEN acc \o NewItems(items, ItemNames(acc)) ELSE acc

(***************************************************************************)
(* The embedded line1 array and its conversion.                            *)
(***************************************************************************)
\* datetime.strptime(date_str, "%b %d %Y %H: +0"): the strings it accepts
\* and the instant each denotes.
StrpTimeOk(s) ==
    s \in {"May 15 2024 11: +0", "May 15 2024 12: +0", "May 16 2024 01: +0"}

StrpTime(s) ==
    CASE s = "May 15 2024 11: +0" -> 135 * 24 + 11
      [] s = "May 15 2024 12: +0" -> 135 * 24 + 12
      [] s = "May 16 2024 01: +0" -> 136 * 24 + 1

\* float(entry[1]), in cents
FloatOk(s) == s \in {"1.50", "0"}

Float(s) ==
    CASE s = "1.50" -> 150
      [] s = "0" -> 0

\* int(entry[2])
IntOk(s) == s \in {"10", "20"}

Int10(s) ==
    CASE s = "10" -> 10
      [] s = "20" -> 20

\* Raw tuples a line1 array can hold.
RawTuples ==
    { <<"May 15 2024 12: +0", "1.50", "10">>,
      <<"May 15 2024 12: +0", "0", "20">>,
      <<"May 16 2024 01: +0", "1.50">>,
      <<"May 15 2024 11: +0", "1.50", "10">>,
      <<"May 16 2024 01: +0", "abc", "10">>,
      <<"Mon, 01 Jan 2024 01:00:00 GMT", "1.50", "10">>,
      <<"May 16 2024 01: +0", "1.50", "1,024">>,
      <<"May 16 2024 01: +0">> }

\* Lines 179-197 without the comparison of line 189.
ConvertEntryUnfiltered(entry, item_name, cutoff) ==
    IF Len(entry) < 2 THEN <<>>
    ELSE IF ~FloatOk(entry[2]) THEN <<>>
    ELSE IF Len(entry) > 2 /\ ~IntOk(entry[3]) THEN <<>>
    ELSE IF ~StrpTimeOk(entry[1]) THEN <<>>
    ELSE <<[item_name |-> item_name,
            date |-> StrpTime(entry[1]),
            price |-> Float(entry[2]),
            volume |-> IF Len(entry) > 2 THEN Int10(entry[3]) ELSE 0]>>

\* Lines 179-197: one raw tuple becomes zero or one observation.
ConvertEntry(entry, item_name, cutoff) ==
    IF Len(entry) < 2 THEN <<>>
    ELSE IF ~FloatOk(entry[2]) THEN <<>>
    ELSE IF Len(entry) > 2 /\ ~IntOk(entry[3]) THEN <<>>
    ELSE IF ~StrpTimeOk(entry[1]) THEN <<>>
    ELSE IF StrpTime(entry[1]) >= cutoff
         THEN <<[item_name |-> item_name,
                 date |-> StrpTime(entry[1]),
                 price |-> Float(entry[2]),
                 volume |-> IF Len(entry) > 2 THEN Int10(entry[3]) ELSE 0]>>
         ELSE <<>>

\* A raw tuple one of whose conversions raises: too few elements, a price
\* float() rejects, a volume int() rejects, a date strptime rejects.
Malformed(entry) ==
    \/ Len(entry) < 2
    \/ ~FloatOk(entry[2])
    \/ (Len(entry) > 2 /\ ~IntOk(entry[3]))
    \/ ~StrpTimeOk(entry[1])

\* Lines 177-197 with the try of line 179 around the whole loop: one
\* tuple that raises loses the batch.
ParseEntriesAbort(raw, item_name, cutoff) ==
    IF \E i \in DOMAIN raw : Malformed(raw[i]) THEN <<>>
    ELSE [i \in DOMAIN raw |->
             [item_name |-> item_name,
              date |-> StrpTime(raw[i][1]),
              price |-> Float(raw[i][2]),
              volume |-> IF Len(raw[i]) > 2 THEN Int10(raw[i][3]) ELSE 0]]

RECURSIVE ParseEntries(_, _, _)
ParseEntries(raw, item_name, cutoff) ==
    IF raw = <<>> THEN <<>>
    ELSE ConvertEntry(Head(raw), item_name, cutoff)
         \o ParseEntries(Tail(raw), item_name, cutoff)

\* Page texts: without the line1 marker, with a line1 array json.loads
\* rejects, or with a decodable array of raw tuples.
Htmls ==
    [marker : {"absent", "undecodable"}, data : {<<>>}]
    \cup [marker : {"found"}, data : SeqUpTo(RawTuples, MaxTuples) \ {<<>>}]

NoHtml == [marker |-> "absent", data |-> <<>>]

\* Lines 162-215 without the test of line 207: the list is returned even
\* when it is empty.
extract_returning_empty(h, item_name, cutoff) ==
    IF h.marker = "found"
    THEN IF h.data = <<>> THEN None
         ELSE List(ParseEntries(h.data, item_name, cutoff))
    ELSE None

\* Lines 162-215.
extract_from_page_source(h, item_name, cutoff) ==
    IF h.marker = "found"
    THEN IF h.data = <<>> THEN None
         ELSE LET parsed_data == ParseEntries(h.data, item_name, cutoff)
              IN  IF parsed_data # <<>> THEN List(parsed_data) ELSE None
    ELSE None

(***************************************************************************)
(* The frame written to the CSV.                                           *)
(***************************************************************************)
\* temp_df[['item_name', 'date', 'price']]
RECURSIVE Project(_)
Project(rows) ==
    IF rows = <<>> THEN <<>>
    ELSE <<[item_name |-> Head(rows).item_name,
            date |-> Head(rows).date,
            price |-> Head(rows).price]>> \o Project(Tail(rows))

\* Order of sort_values(['item_name', 'date'])
KeyLess(r, s) ==
    \/ NameRank(r.item_name) < NameRank(s.item_name)
    \/ /\ r.item_name = s.item_name
       /\ r.date < s.date

\* Insert r in front of the rows with an equal key: an unstable sort.
RECURSIVE InsertUnstable(_, _)
InsertUnstable(sorted, r) ==
    IF sorted = <<>> THEN <<r>>
    ELSE IF ~KeyLess(Head(sorted), r) THEN <<r>> \o sorted
    ELSE <<Head(sorted)>> \o InsertUnstable(Tail(sorted), r)

\* Insert r behind every row whose key is not greater: rows with equal keys
\* keep their order (sort_values on several columns is a stable lexsort).
RECURSIVE Insert(_, _)
Insert(sorted, r) ==
    IF sorted = <<>> THEN <<r>>
    ELSE IF KeyLess(r, Head(sorted)) THEN <<r>> \o sorted
    ELSE <<Head(sorted)>> \o Insert(Tail(sorted), r)

RECURSIVE SortValues(_)
SortValues(rows) ==
    IF rows = <<>> THEN <<>>
    ELSE Insert(SortValues(SubSeq(rows, 1, Len(rows) - 1)), rows[Len(rows)])

\* pd.DataFrame(all_price_data)[cols].sort_values(...).reset_index(drop=True)
Frame(data) == SortValues(Project(data))

(***************************************************************************)
(* State machine of one run.                                               *)
(***************************************************************************)
NoFile == [exists |-> FALSE, rows |-> <<>>]

\* Position after the page loop (lines 275-290).
AfterPages(items) == IF items = <<>> THEN "done" ELSE "fetch"

\* Position after one entry's iteration (lines 311-318).
AfterEntry == IF idx < Len(all_items) THEN "item_delay" ELSE "final"

\* The state right after SteamMarketWeaponCasesScraper() and the call of
\* scrape_multiple_pages.
ScraperStart ==
    /\ pc = "page"
    /\ one_year_ago = RunStart - WindowDays * 24
    /\ num_pages \in 0..MaxPages
    /\ page_num = 1
    /\ all_items = <<>>
    /\ listing = <<>>
    /\ page_statuses = <<>>
    /\ idx = 1
    /\ retry_count = 0
    /\ statuses = <<>>
    /\ sleeps = <<>>
    /\ cooldowns = 0
    /\ html = NoHtml
    /\ price_data = None
    /\ all_price_data = <<>>
    /\ scraped_items = <<>>
    /\ file = NoFile
    /\ wbuf = <<>>
    /\ saving = "none"
    /\ prev_snapshot = NoFile
    /\ progressive = <<>>
    /\ writes = 0
    /\ alive = TRUE
    /\ result = "running"

\* What parse_date_range returns for (None, None).
NoDates == [kind |-> "none", start_date |-> 0, end_date |-> 0]

\* No file written by the event script.
NoCsv == [saved |-> FALSE, rows |-> <<>>]

\* The event script is not running.
EventIdle ==
    /\ ev_pc = "idle"
    /\ ev_start = 0
    /\ ev_now = 0
    /\ tournament_rows = <<>>
    /\ tournaments = <<>>
    /\ shown_one_year_ago = 0
    /\ filter_one_year_ago = 0
    /\ last_year_tournaments = <<>>
    /\ csv = NoCsv
    /\ ev_error = ""

\* No call of parse_date_range is under study.
ParseIdle ==
    /\ date_str = <<>>
    /\ parse_pc = "idle"
    /\ parsed = NoDates

\* A run of the price scraper.
Init == ScraperStart /\ EventIdle /\ ParseIdle

fetch_vars == <<retry_count, statuses, sleeps, cooldowns, html, price_data>>
store_vars == <<all_price_data, scraped_items>>
sink_vars == <<file, wbuf, saving, prev_snapshot, progressive, writes>>

\* page_urls is empty: the page loop does not run.
NoPages ==
    /\ alive
    /\ pc = "page"
    /\ num_pages = 0
    /\ pc' = "collected"
    /\ UNCHANGED <<event_vars, parse_vars, alive, listing, page_statuses, one_year_ago, num_pages,
                   page_num, all_items, idx, result, fetch_vars, store_vars,
                   sink_vars>>

\* Lines 253-273 with the delay of lines 270-273 inside the if of line
\* 257: a page without items is followed by the next page at once.
ScrapePageNoDelayAfterEmpty ==
    /\ alive
    /\ pc = "page"
    /\ page_num <= num_pages
    /\ \E resp \in PageResponses :
         LET items == get_items_from_page(resp)
         IN  /\ all_items' = MergePage(items, all_items)
             /\ listing' = Append(listing, items)
             /\ page_statuses' = Append(page_statuses, PageOutcome(resp))
             /\ IF page_num < num_pages /\ items = <<>>
                THEN pc' = "page" /\ page_num' = page_num + 1
                ELSE /\ page_num' = page_num
                     /\ pc' = IF page_num < num_pages
                              THEN "page_delay" ELSE "collected"
    /\ UNCHANGED <<event_vars, parse_vars, alive, one_year_ago, num_pages,
                   idx, result, fetch_vars, store_vars, sink_vars>>

\* Lines 253-268: one iteration of the page loop up to its delay.
ScrapePage ==
    /\ alive
    /\ pc = "page"
    /\ page_num <= num_pages
    /\ \E resp \in PageResponses :
         LET items == get_items_from_page(resp)
         IN  /\ all_items' = MergePage(items, all_items)
             /\ listing' = Append(listing, items)
             /\ page_statuses' = Append(page_statuses, PageOutcome(resp))
    /\ pc' = IF page_num < num_pages THEN "page_delay" ELSE "collected"
    /\ UNCHANGED <<event_vars, parse_vars, alive, one_year_ago, num_pages, page_num, idx, result,
                   fetch_vars, store_vars, sink_vars>>

\* Lines 275-288: after the page loop: return None without items, else go
\* on to the entries.
Collected ==
    /\ alive
    /\ pc = "collected"
    /\ pc' = AfterPages(all_items)
    /\ result' = IF all_items = <<>> THEN "None" ELSE result
    /\ listing' = <<>>
    /\ page_statuses' = <<>>
    /\ UNCHANGED <<event_vars, parse_vars, alive, one_year_ago, num_pages, page_num, all_items, idx,
                   fetch_vars, store_vars, sink_vars>>

\* Lines 270-273: the delay between two pages.
PageDelay ==
    /\ alive
    /\ pc = "page_delay"
    /\ page_num' = page_num + 1
    /\ pc' = "page"
    /\ UNCHANGED <<event_vars, parse_vars, alive, listing, page_statuses, one_year_ago, num_pages,
                   all_items, idx, result, fetch_vars, store_vars,
                   sink_vars>>

\* Status codes a market page request can answer with; RequestFailed stands
\* in the log of a call for a request that raised instead of answering.
RequestFailed == 0
StatusCodes == {200, 429, 403, 500}

\* Line 127: page_response.status_code == 429
ThrottledAny(status) == status # 200
Throttled(status) == status = 429

\* Line 129: retry_count < max_retries
MayRetryInclusive(rc) == rc <= max_retries
MayRetry(rc) == rc < max_retries

\* Line 130: self.rate_limit_backoff * (retry_count + 1)
backoff_time_flat(rc) == rate_limit_backoff
backoff_time(rc) == rate_limit_backoff * (rc + 1)

\* Lines 127-133: a 429 below the retry ceiling: sleep, then recurse.
RateLimited ==
    /\ alive
    /\ pc = "fetch"
    /\ \E status \in StatusCodes :
         /\ Throttled(status)
         /\ statuses' = Append(statuses, status)
    /\ MayRetry(retry_count)
    /\ sleeps' = Append(sleeps, backoff_time(retry_count))
    /\ retry_count' = retry_count + 1
    /\ UNCHANGED <<event_vars, parse_vars, alive, listing, page_statuses, pc, one_year_ago,
                   num_pages, page_num, all_items, idx, cooldowns, html,
                   price_data, result, store_vars, sink_vars>>

\* Lines 134-136: a 429 at the retry ceiling.
RetriesExhausted ==
    /\ alive
    /\ pc = "fetch"
    /\ \E status \in StatusCodes :
         /\ Throttled(status)
         /\ statuses' = Append(statuses, status)
    /\ ~MayRetry(retry_count)
    /\ price_data' = None
    /\ pc' = "returned"
    /\ UNCHANGED <<event_vars, parse_vars, alive, listing, page_statuses, one_year_ago, num_pages,
                   page_num, all_items, idx, retry_count, sleeps, cooldowns,
                   html, result, store_vars, sink_vars>>

\* Lines 138-140: any other status than 200.
HttpError ==
    /\ alive
    /\ pc = "fetch"
    /\ \E status \in StatusCodes :
         /\ ~Throttled(status)
         /\ status # 200
         /\ statuses' = Append(statuses, status)
    /\ price_data' = None
    /\ pc' = "returned"
    /\ UNCHANGED <<event_vars, parse_vars, alive, listing, page_statuses, one_year_ago, num_pages,
                   page_num, all_items, idx, retry_count, sleeps, cooldowns,
                   html, result, store_vars, sink_vars>>

\* Lines 147-149: session.get raises (connection error, 20s timeout).
RequestException ==
    /\ alive
    /\ pc = "fetch"
    /\ statuses' = Append(statuses, RequestFailed)
    /\ price_data' = None
    /\ pc' = "returned"
    /\ UNCHANGED <<event_vars, parse_vars, alive, listing, page_statuses, one_year_ago, num_pages,
                   page_num, all_items, idx, retry_count, sleeps, cooldowns,
                   html, result, store_vars, sink_vars>>

\* Lines 142-145: a 200: cool down, then extract from the page source.
Success ==
    /\ alive
    /\ pc = "fetch"
    /\ \E h \in Htmls :
         /\ html' = h
         /\ price_data' =
                extract_from_page_source(h, all_items[idx].name, one_year_ago)
    /\ \E status \in StatusCodes :
         /\ ~Throttled(status)
         /\ status = 200
         /\ statuses' = Append(statuses, status)
    /\ cooldowns' = cooldowns + 1
    /\ pc' = "returned"
    /\ UNCHANGED <<event_vars, parse_vars, alive, listing, page_statuses, one_year_ago, num_pages,
                   page_num, all_items, idx, retry_count, sleeps, result,
                   store_vars, sink_vars>>

ResetFetch ==
    /\ retry_count' = 0
    /\ statuses' = <<>>
    /\ sleeps' = <<>>
    /\ cooldowns' = 0
    /\ html' = NoHtml
    /\ price_data' = None

\* Lines 296-305 with line 297 assigning instead of extending.
AccumulateReplace ==
    /\ alive
    /\ pc = "returned"
    /\ Truthy(price_data)
    /\ all_price_data' = price_data.rows
    /\ scraped_items' = Append(scraped_items, all_items[idx].name)
    /\ wbuf' = Frame(all_price_data')
    /\ saving' = "progressive"
    /\ pc' = "open"
    /\ ResetFetch
    /\ UNCHANGED <<event_vars, parse_vars, alive, listing, page_statuses, one_year_ago, num_pages,
                   page_num, all_items, idx, result, file, prev_snapshot,
                   progressive, writes>>

\* Lines 296-305 with the frame built before line 297 extends the list.
AccumulateWriteFirst ==
    /\ alive
    /\ pc = "returned"
    /\ Truthy(price_data)
    /\ all_price_data' = all_price_data \o price_data.rows
    /\ scraped_items' = Append(scraped_items, all_items[idx].name)
    /\ wbuf' = Frame(all_price_data)
    /\ saving' = "progressive"
    /\ pc' = "open"
    /\ ResetFetch
    /\ UNCHANGED <<event_vars, parse_vars, alive, listing, page_statuses, one_year_ago, num_pages,
                   page_num, all_items, idx, result, file, prev_snapshot,
                   progressive, writes>>

\* Lines 296-305: the entry has data: accumulate it and build the frame.
Accumulate ==
    /\ alive
    /\ pc = "returned"
    /\ Truthy(price_data)
    /\ all_price_data' = all_price_data \o price_data.rows
    /\ scraped_items' = Append(scraped_items, all_items[idx].name)
    /\ wbuf' = Frame(all_price_data')
    /\ saving' = "progressive"
    /\ pc' = "open"
    /\ ResetFetch
    /\ UNCHANGED <<event_vars, parse_vars, alive, listing, page_statuses, one_year_ago, num_pages,
                   page_num, all_items, idx, result, file, prev_snapshot,
                   progressive, writes>>

\* Lines 308-309 recording the entry although it has no data.
SkipRecording ==
    /\ alive
    /\ pc = "returned"
    /\ ~Truthy(price_data)
    /\ scraped_items' = Append(scraped_items, all_items[idx].name)
    /\ pc' = AfterEntry
    /\ ResetFetch
    /\ UNCHANGED <<event_vars, parse_vars, alive, listing, page_statuses, one_year_ago, num_pages,
                   page_num, all_items, idx, result, all_price_data,
                   sink_vars>>

\* Lines 308-309: the entry has no data.
Skip ==
    /\ alive
    /\ pc = "returned"
    /\ ~Truthy(price_data)
    /\ pc' = AfterEntry
    /\ ResetFetch
    /\ UNCHANGED <<event_vars, parse_vars, alive, listing, page_statuses, one_year_ago, num_pages,
                   page_num, all_items, idx, result, store_vars, sink_vars>>

\* to_csv opens the output file for writing: the file is created or cut
\* to length zero.
OpenFile ==
    /\ alive
    /\ pc = "open"
    /\ prev_snapshot' = file
    /\ file' = [exists |-> TRUE, rows |-> <<>>]
    /\ pc' = "write"
    /\ UNCHANGED <<event_vars, parse_vars, alive, listing, page_statuses, one_year_ago, num_pages,
                   page_num, all_items, idx, result, fetch_vars, store_vars,
                   wbuf, saving, progressive, writes>>

\* to_csv writes the next row of the frame.
WriteRow ==
    /\ alive
    /\ pc = "write"
    /\ Len(file.rows) < Len(wbuf)
    /\ file' = [file EXCEPT !.rows = Append(@, wbuf[Len(file.rows) + 1])]
    /\ UNCHANGED <<event_vars, parse_vars, alive, listing, page_statuses, pc, one_year_ago,
                   num_pages, page_num, all_items, idx, result, fetch_vars,
                   store_vars, wbuf, saving, prev_snapshot, progressive,
                   writes>>

\* to_csv returns (lines 306-315 and 330-339).
CloseFile ==
    /\ alive
    /\ pc = "write"
    /\ Len(file.rows) = Len(wbuf)
    /\ writes' = writes + 1
    /\ saving' = "none"
    /\ wbuf' = <<>>
    /\ IF saving = "progressive"
       THEN /\ progressive' = file.rows
            /\ pc' = AfterEntry
            /\ result' = result
       ELSE /\ progressive' = progressive
            /\ pc' = "done"
            /\ result' = "df"
    /\ UNCHANGED <<event_vars, parse_vars, alive, listing, page_statuses, one_year_ago, num_pages,
                   page_num, all_items, idx, fetch_vars, store_vars, file,
                   prev_snapshot>>

\* Lines 312-315: the delay between two entries.
ItemDelay ==
    /\ alive
    /\ pc = "item_delay"
    /\ idx' = idx + 1
    /\ pc' = "fetch"
    /\ UNCHANGED <<event_vars, parse_vars, alive, listing, page_statuses, one_year_ago, num_pages,
                   page_num, all_items, result, fetch_vars, store_vars,
                   sink_vars>>

\* Lines 318-330 without the sort_values of line 327.
FinalFrameUnsorted ==
    /\ alive
    /\ pc = "final"
    /\ all_price_data # <<>>
    /\ wbuf' = Project(all_price_data)
    /\ saving' = "final"
    /\ pc' = "open"
    /\ UNCHANGED <<event_vars, parse_vars, alive, listing, page_statuses, one_year_ago, num_pages,
                   page_num, all_items, idx, result, fetch_vars, store_vars,
                   file, prev_snapshot, progressive, writes>>

\* Lines 318-330: the final frame is built and written.
FinalFrame ==
    /\ alive
    /\ pc = "final"
    /\ all_price_data # <<>>
    /\ wbuf' = Frame(all_price_data)
    /\ saving' = "final"
    /\ pc' = "open"
    /\ UNCHANGED <<event_vars, parse_vars, alive, listing, page_statuses, one_year_ago, num_pages,
                   page_num, all_items, idx, result, fetch_vars, store_vars,
                   file, prev_snapshot, progressive, writes>>

\* Lines 340-342: nothing was collected.
NoData ==
    /\ alive
    /\ pc = "final"
    /\ all_price_data = <<>>
    /\ result' = "None"
    /\ pc' = "done"
    /\ UNCHANGED <<event_vars, parse_vars, alive, listing, page_statuses, one_year_ago, num_pages,
                   page_num, all_items, idx, fetch_vars, store_vars,
                   sink_vars>>

\* The process is terminated (Ctrl-C, kill, power loss) wherever it is.
Interrupt ==
    /\ alive
    /\ pc # "done"
    /\ alive' = FALSE
    /\ UNCHANGED <<event_vars, parse_vars, pc, listing, page_statuses,
                   one_year_ago, num_pages,
                   page_num, all_items, idx, result, fetch_vars, store_vars,
                   sink_vars>>

Next ==
    \/ NoPages
    \/ ScrapePage
    \/ PageDelay
    \/ Collected
    \/ RateLimited
    \/ RetriesExhausted
    \/ HttpError
    \/ RequestException
    \/ Success
    \/ Accumulate
    \/ Skip
    \/ OpenFile
    \/ WriteRow
    \/ CloseFile
    \/ ItemDelay
    \/ FinalFrame
    \/ NoData
    \/ Interrupt

Spec == Init /\ [][Next]_vars

(***************************************************************************)
(* Properties of get_price_history.                                        *)
(***************************************************************************)
Last(seq) == seq[Len(seq)]

\* C1: a top-level get_price_history call answered 429, 429, 429, 200
\* returns what extract_from_page_source makes of the fourth response, after
\* exactly three backoff sleeps of 60, 120 and 180 seconds (strictly
\* increasing).
C1_BackoffThenSuccess ==
    (pc = "returned" /\ statuses = <<429, 429, 429, 200>>) =>
        /\ sleeps = <<60, 120, 180>>
        /\ \A i \in 1..(Len(sleeps) - 1) : sleeps[i] < sleeps[i + 1]
        /\ price_data =
               extract_from_page_source(html, all_items[idx].name, one_year_ago)

C1_Witness ==
    /\ pc = "returned"
    /\ statuses = <<429, 429, 429, 200>>
    /\ Truthy(price_data)

\* C2: one top-level get_price_history call makes at most max_retries + 1 = 4
\* requests and at most 3 backoff sleeps, and returns either None or a
\* (non-empty) list of observations; a 429 received at retry_count =
\* max_retries returns None with no further sleep or request.
C2_BoundedRetries ==
    /\ Len(statuses) <= 4
    /\ Len(sleeps) <= 3
    /\ retry_count <= max_retries
    /\ pc = "returned" => (price_data = None \/ Truthy(price_data))
    /\ (pc = "returned" /\ Last(statuses) = 429) =>
           /\ retry_count = max_retries
           /\ Len(statuses) = max_retries + 1
           /\ Len(sleeps) = max_retries
           /\ price_data = None

C2_Witness ==
    /\ pc = "returned"
    /\ statuses = <<429, 429, 429, 429>>
    /\ price_data = None

\* C3: a response that is neither 200 nor 429, or a request that raises,
\* ends the call at once with None, whatever retry_count is: no request
\* follows it and no sleep is made for it; every backoff sleep follows a 429.
C3_OnlyThrottlingRetries ==
    LET n == Len(statuses)
    IN  /\ \A i \in 1..n :
               statuses[i] # 429 => (i = n /\ pc = "returned")
        /\ Len(sleeps) = (IF pc = "returned" THEN n - 1 ELSE n)
        /\ (pc = "returned" /\ Last(statuses) \notin {200, 429}) =>
               /\ price_data = None
               /\ cooldowns = 0

C3_Witness ==
    /\ pc = "returned"
    /\ retry_count = 2
    /\ Last(statuses) \in {403, 500, RequestFailed}
    /\ Len(sleeps) = 2

(***************************************************************************)
(* Properties of scrape_multiple_pages.                                    *)
(***************************************************************************)
Range(seq) == {seq[i] : i \in DOMAIN seq}

\* The rows of a file as a bag.
RowBag(rows) ==
    [r \in Range(rows) |-> Cardinality({i \in DOMAIN rows : rows[i] = r})]

RowNames(rows) == {rows[i].item_name : i \in DOMAIN rows}

\* No to_csv is between opening the file and returning.
NotWriting == pc # "write"

\* C4: the rows of the file written after one successful entry are all still
\* in the file written after the next successful entry (as a bag: none is
\* removed or altered), and the later file holds strictly more identifiers.
C4_SnapshotsGrow ==
    (writes >= 1 /\ NotWriting) =>
        /\ RowBag(prev_snapshot.rows) \sqsubseteq RowBag(file.rows)
        /\ pc # "done" =>
               /\ RowNames(prev_snapshot.rows) \subseteq RowNames(file.rows)
               /\ RowNames(prev_snapshot.rows) # RowNames(file.rows)

C4_Witness ==
    /\ writes = 2
    /\ pc = "final"
    /\ Len(prev_snapshot.rows) = 2
    /\ Len(file.rows) = 4

\* C5: between two entry iterations (and while the next entry is fetched)
\* the file holds exactly the observations accumulated from the entries
\* processed successfully so far, projected to identifier, timestamp and
\* price: it exists only if there are any, and its identifiers are those of
\* scraped_items.
C5_SinkMirrorsProgress ==
    pc \in {"item_delay", "fetch", "returned", "final"} =>
        /\ RowBag(file.rows) = RowBag(Project(all_price_data))
        /\ file.exists <=> all_price_data # <<>>
        /\ RowNames(file.rows) = Range(scraped_items)

C5_Witness ==
    /\ pc = "item_delay"
    /\ Len(scraped_items) = 1
    /\ Len(file.rows) = 2
    /\ writes = 1

\* C6: a run terminated at any point, also in the middle of to_csv, leaves
\* the file as the complete previous snapshot or the complete new one.
C6_AtomicWrite ==
    (~alive /\ pc = "write") => (file = prev_snapshot \/ file.rows = wbuf)

\* C7: every completely written snapshot (progressive or final) is ordered
\* by identifier and then by timestamp, and sorting it again leaves its row
\* order unchanged.
C7_SortedSnapshots ==
    (file.exists /\ NotWriting) =>
        /\ \A i, j \in DOMAIN file.rows :
               i < j => ~KeyLess(file.rows[j], file.rows[i])
        /\ SortValues(file.rows) = file.rows

C7_Witness ==
    /\ pc = "done"
    /\ Len(file.rows) = 4
    /\ file.rows[1].date = file.rows[2].date
    /\ file.rows[1].price # file.rows[2].price
    /\ all_price_data[1].item_name = "Falchion Case"
    /\ file.rows[1].item_name = "Chroma Case"

\* C8: after a complete run with at least one successful entry the file is
\* the one sorted frame of all accepted observations, and the final write
\* left the content of the last progressive write unchanged.
C8_FinalEqualsProgressive ==
    (pc = "done" /\ result = "df") =>
        /\ file.rows = progressive
        /\ file.rows = SortValues(Project(all_price_data))
        /\ prev_snapshot.rows = file.rows

C8_Witness ==
    /\ pc = "done"
    /\ result = "df"
    /\ writes = 3
    /\ Len(scraped_items) = 2
    /\ all_price_data[1].item_name = "Falchion Case"

\* C9: an entry whose fetch fails or whose extraction returns no data
\* changes neither all_price_data nor scraped_items nor the file, and starts
\* no write; a run in which no entry succeeds never writes the file and
\* returns None.
C9_FailedEntryLeavesNoTrace ==
    /\ []((pc = "done" /\ scraped_items = <<>>) =>
              (~file.exists /\ writes = 0 /\ result = "None"))
    /\ [][(pc = "fetch" \/ (pc = "returned" /\ ~Truthy(price_data))) =>
              /\ all_price_data' = all_price_data
              /\ scraped_items' = scraped_items
              /\ file' = file
              /\ writes' = writes
              /\ pc' \notin {"open", "write"}]_vars

C9_Witness ==
    /\ pc = "done"
    /\ result = "None"
    /\ Len(all_items) = 2
    /\ idx = 2
    /\ scraped_items = <<>>
    /\ ~file.exists

\* The items of all pages seen so far, in page order.
RECURSIVE Flatten(_)
Flatten(pages) ==
    IF pages = <<>> THEN <<>> ELSE Head(pages) \o Flatten(Tail(pages))

\* C10: the merged list holds every identifier found on the pages exactly
\* once, each with the item of its first occurrence, in the order of the
\* first occurrences; repeats on a later page or within a page are skipped.
C10_FirstOccurrenceWins ==
    LET seen == Flatten(listing)
        First(name) ==
            CHOOSE i \in DOMAIN seen :
                /\ seen[i].name = name
                /\ \A j \in 1..(i - 1) : seen[j].name # name
    IN  /\ (pc \in {"page", "page_delay", "collected"} /\ listing = <<>>) =>
               all_items = <<>>
        /\ listing # <<>> =>
               /\ ItemNames(all_items) = ItemNames(seen)
               /\ \A i, j \in DOMAIN all_items :
                      i # j => all_items[i].name # all_items[j].name
               /\ \A i \in DOMAIN all_items :
                      all_items[i] = seen[First(all_items[i].name)]
               /\ \A i, j \in DOMAIN all_items :
                      i < j => First(all_items[i].name) < First(all_items[j].name)

C10_Witness ==
    /\ pc = "collected"
    /\ Len(listing) = 2
    /\ Len(listing[1]) = 2
    /\ Len(listing[2]) = 2
    /\ listing[1][1].name = listing[1][2].name
    /\ listing[1][1].url # listing[1][2].url
    /\ listing[2][1].name # listing[1][1].name
    /\ listing[2][2].name = listing[1][1].name
    /\ Len(all_items) = 2

\* C11: a listing page answered with another status than 200, or whose
\* fetch raises, yields no item and leaves all_items as it was, and the
\* page loop goes on: when the loop ends every page of page_urls has been
\* fetched.
C11_FailedPageSkipped ==
    /\ [](pc = "collected" => Len(page_statuses) = num_pages)
    /\ [][(Len(page_statuses') = Len(page_statuses) + 1
           /\ Last(page_statuses') # 200) =>
              /\ Last(listing') = <<>>
              /\ all_items' = all_items
              /\ pc' = IF page_num < num_pages
                       THEN "page_delay" ELSE "collected"]_vars

C11_Witness ==
    /\ pc = "collected"
    /\ page_statuses = <<500, 200>>
    /\ listing[2] # <<>>
    /\ all_items = listing[2]

(***************************************************************************)
(* Properties of extract_from_page_source and of the price table.          *)
(***************************************************************************)
\* Every observation the run holds: returned, accumulated, being written or
\* written.
HeldRows ==
    Range(price_data.rows) \cup Range(all_price_data) \cup Range(wbuf)
    \cup Range(file.rows) \cup Range(prev_snapshot.rows)

\* C12: every observation returned by extract_from_page_source, held in
\* all_price_data or written to a snapshot has a timestamp at or after the
\* run start minus 365 days.
C12_WithinWindow ==
    \A r \in HeldRows : r.date >= RunStart - 365 * 24

C12_Witness ==
    /\ pc = "returned"
    /\ Len(html.data) = 2
    /\ html.data[1] = <<"May 15 2024 11: +0", "1.50", "10">>
    /\ html.data[2][1] = "May 15 2024 12: +0"
    /\ Truthy(price_data)
    /\ price_data.rows[1].date = RunStart - 365 * 24

\* A raw tuple that converts and lies in the window.
Acceptable(entry) ==
    ~Malformed(entry) /\ StrpTime(entry[1]) >= one_year_ago

\* C13: extract_from_page_source drops every raw tuple one of whose
\* conversions fails and returns all other in-window tuples of the array,
\* converted, in the order of the array; None only if none is left.
C13_MalformedTupleDropped ==
    (pc = "returned" /\ Last(statuses) = 200 /\ html.marker = "found") =>
        LET kept == SelectSeq(html.data, Acceptable)
            rows == price_data.rows
        IN  /\ Len(rows) = Len(kept)
            /\ price_data.is_none <=> kept = <<>>
            /\ \A i \in DOMAIN rows :
                   /\ rows[i].item_name = all_items[idx].name
                   /\ rows[i].date = StrpTime(kept[i][1])
                   /\ rows[i].price = Float(kept[i][2])
                   /\ rows[i].volume =
                          (IF Len(kept[i]) > 2 THEN Int10(kept[i][3]) ELSE 0)

C13_Witness ==
    /\ pc = "returned"
    /\ Len(html.data) = 2
    /\ html.data[1] = <<"May 16 2024 01: +0", "abc", "10">>
    /\ ~Malformed(html.data[2])
    /\ Truthy(price_data)
    /\ Len(price_data.rows) = 1

\* C18: every identifier is fetched and appended at most once, so two rows
\* with the same identifier and timestamp come from one extraction, whose
\* page carried that timestamp twice.
C18_NoDuplicateObservations ==
    /\ [](\A i, j \in DOMAIN all_items :
              i # j => all_items[i].name # all_items[j].name)
    /\ [](\A i, j \in DOMAIN scraped_items :
              i # j => scraped_items[i] # scraped_items[j])
    /\ [](RowNames(all_price_data) = Range(scraped_items))
    /\ [][Len(scraped_items') = Len(scraped_items) + 1 =>
              \A i, j \in DOMAIN all_price_data' :
                  (/\ i < j
                   /\ j > Len(all_price_data)
                   /\ all_price_data'[i].item_name = all_price_data'[j].item_name
                   /\ all_price_data'[i].date = all_price_data'[j].date) =>
                      /\ i > Len(all_price_data)
                      /\ \E k, l \in DOMAIN html.data :
                             /\ k < l
                             /\ html.data[k] # <<>>
                             /\ html.data[l] # <<>>
                             /\ html.data[k][1] = html.data[l][1]]_vars

C18_Witness ==
    /\ pc = "done"
    /\ result = "df"
    /\ Len(scraped_items) = 2
    /\ Len(file.rows) = 3
    /\ file.rows[1].item_name = file.rows[2].item_name
    /\ file.rows[1].date = file.rows[2].date

\* C19: every observation accepted by extract_from_page_source and every
\* row of the price table has a price above zero.
C19_PositivePrices ==
    \A r \in HeldRows : r.price > 0

(***************************************************************************)
(* Model of the tournament scraper (src/event-data/event_scraping.py).     *)
(*                                                                         *)
(* Text is a sequence of one-character strings, so that split, strip, the  *)
(* regular expression of line 115 and strptime work on the characters.     *)
(* A datetime is a whole number of hours counted from 2024-01-01 00:00, as *)
(* in the price scraper.                                                   *)
(***************************************************************************)
Digits == <<"0", "1", "2", "3", "4", "5", "6", "7", "8", "9">>
IsDigit(c) == \E i \in DOMAIN Digits : Digits[i] = c
DigitValue(c) == (CHOOSE i \in DOMAIN Digits : Digits[i] = c) - 1
IsSpace(c) == c = " "
IsUpper(c) ==
    c \in {"A", "B", "C", "D", "E", "F", "G", "H", "I", "J", "K", "L", "M",
           "N", "O", "P", "Q", "R", "S", "T", "U", "V", "W", "X", "Y", "Z"}
IsLower(c) ==
    c \in {"a", "b", "c", "d", "e", "f", "g", "h", "i", "j", "k", "l", "m",
           "n", "o", "p", "q", "r", "s", "t", "u", "v", "w", "x", "y", "z"}

\* sep occurs in s at position i.
MatchAt(s, i, sep) ==
    /\ i >= 1
    /\ i + Len(sep) - 1 <= Len(s)
    /\ \A k \in 1..Len(sep) : s[i + k - 1] = sep[k]

\* sep in s
Contains(s, sep) == \E i \in 1..Len(s) : MatchAt(s, i, sep)

\* s.find(sep), counted from 1; 0 when sep does not occur.
Find(s, sep) ==
    IF Contains(s, sep)
    THEN CHOOSE i \in 1..Len(s) :
             MatchAt(s, i, sep) /\ \A j \in 1..(i - 1) : ~MatchAt(s, j, sep)
    ELSE 0

\* s.split(sep)
RECURSIVE Split(_, _)
Split(s, sep) ==
    LET i == Find(s, sep)
    IN  IF i = 0 THEN <<s>>
        ELSE <<SubSeq(s, 1, i - 1)>>
                 \o Split(SubSeq(s, i + Len(sep), Len(s)), sep)

\* s.lstrip(), s.rstrip(), s.strip()
RECURSIVE LStrip(_)
LStrip(s) == IF s # <<>> /\ IsSpace(Head(s)) THEN LStrip(Tail(s)) ELSE s
RECURSIVE RStrip(_)
RStrip(s) ==
    IF s # <<>> /\ IsSpace(s[Len(s)])
    THEN RStrip(SubSeq(s, 1, Len(s) - 1)) ELSE s
Strip(s) == RStrip(LStrip(s))

\* The first position from i on that holds no white space (Len(s) + 1 if
\* there is none): what \s* and \s+ consume.
SkipSpaces(s, i) ==
    CHOOSE j \in i..(Len(s) + 1) :
        /\ j = Len(s) + 1 \/ ~IsSpace(s[j])
        /\ \A k \in i..(j - 1) : IsSpace(s[k])

\* s.split() without argument: the runs of non-blank characters.
RECURSIVE Words(_)
Words(s) ==
    LET t == LStrip(s)
    IN  IF t = <<>> THEN <<>>
        ELSE LET n == CHOOSE j \in 2..(Len(t) + 1) :
                          /\ j = Len(t) + 1 \/ IsSpace(t[j])
                          /\ \A k \in 1..(j - 1) : ~IsSpace(t[k])
             IN  <<SubSeq(t, 1, n - 1)>> \o Words(SubSeq(t, n, Len(t)))

\* The literals of parse_date_range.
Dash == <<" ", "-", " ">>
CommaSpace == <<",", " ">>
Comma == <<",">>
Space == <<" ">>

\* %b in the C locale.
MonthNames ==
    << <<"J", "a", "n">>, <<"F", "e", "b">>, <<"M", "a", "r">>,
       <<"A", "p", "r">>, <<"M", "a", "y">>, <<"J", "u", "n">>,
       <<"J", "u", "l">>, <<"A", "u", "g">>, <<"S", "e", "p">>,
       <<"O", "c", "t">>, <<"N", "o", "v">>, <<"D", "e", "c">> >>

IsLeap(y) == y % 4 = 0 /\ (y % 100 # 0 \/ y % 400 = 0)

DaysInMonth(y, m) ==
    IF m = 2 THEN (IF IsLeap(y) THEN 29 ELSE 28)
    ELSE IF m \in {4, 6, 9, 11} THEN 30 ELSE 31

\* Leap years among the years 1..y.
LeapsUpTo(y) == (y \div 4) - (y \div 100) + (y \div 400)

RECURSIVE DaysBeforeMonth(_, _)
DaysBeforeMonth(y, m) ==
    IF m = 1 THEN 0 ELSE DaysBeforeMonth(y, m - 1) + DaysInMonth(y, m - 1)

\* datetime(y, m, d): midnight of that day, in hours from 2024-01-01.
DateTime(y, m, d) ==
    24 * (365 * (y - 2024) + LeapsUpTo(y - 1) - LeapsUpTo(2023)
          + DaysBeforeMonth(y, m) + (d - 1))

\* datetime.strptime(s, '%b %d, %Y'). The format becomes the pattern
\* (?P<b>jan|...|dec)\s+(?P<d>3[0-1]|[1-2]\d|0[1-9]|[1-9]| [1-9]),\s+
\* (?P<Y>\d\d\d\d), matched from the start of s; text left over, a year 0
\* or a day the month does not have raise ValueError. The texts of this
\* model write the month with a capital, as the pattern of line 115 wants.
StrpDateFields(s) ==
    LET bad == [ok |-> FALSE, year |-> 0, month |-> 0, day |-> 0]
    IN  IF Len(s) < 3 \/ ~\E m \in 1..12 : MonthNames[m] = SubSeq(s, 1, 3)
        THEN bad
        ELSE
        LET m == CHOOSE k \in 1..12 : MonthNames[k] = SubSeq(s, 1, 3)
            i == SkipSpaces(s, 4)
            two == /\ i + 2 <= Len(s)
                   /\ \/ s[i] = "3" /\ s[i + 1] \in {"0", "1"}
                      \/ s[i] \in {"1", "2"} /\ IsDigit(s[i + 1])
                      \/ s[i] = "0" /\ IsDigit(s[i + 1]) /\ s[i + 1] # "0"
                   /\ s[i + 2] = ","
            one == /\ i + 1 <= Len(s)
                   /\ IsDigit(s[i]) /\ s[i] # "0"
                   /\ s[i + 1] = ","
            d == IF two THEN 10 * DigitValue(s[i]) + DigitValue(s[i + 1])
                 ELSE IF one THEN DigitValue(s[i]) ELSE 0
            c == IF two THEN i + 2 ELSE i + 1
            j == IF c <= Len(s) THEN SkipSpaces(s, c + 1) ELSE c + 1
        IN  IF i = 4 \/ ~(two \/ one) THEN bad
            ELSE IF j = c + 1 \/ j + 3 # Len(s) THEN bad
            ELSE IF \E k \in j..(j + 3) : ~IsDigit(s[k]) THEN bad
            ELSE
            LET y == 1000 * DigitValue(s[j]) + 100 * DigitValue(s[j + 1])
                     + 10 * DigitValue(s[j + 2]) + DigitValue(s[j + 3])
            IN  IF y = 0 \/ d > DaysInMonth(y, m) THEN bad
                ELSE [ok |-> TRUE, year |-> y, month |-> m, day |-> d]

StrpDateOk(s) == StrpDateFields(s).ok
StrpDate(s) ==
    LET f == StrpDateFields(s) IN DateTime(f.year, f.month, f.day)

\* Line 25: the text after the last ', ' of the part after the separator.
YearText(parts) == Strip(Last(Split(parts[2], CommaSpace)))

\* Lines 28-34.
StartDateStr(parts, year) ==
    LET start_parts == Words(Strip(parts[1]))
    IN  IF Len(start_parts) = 2
        THEN start_parts[1] \o Space \o start_parts[2] \o CommaSpace \o year
        ELSE Strip(parts[1]) \o CommaSpace \o year

\* Lines 30 and 48: start_month is bound only if the start has two words;
\* reading it unbound raises UnboundLocalError.
StartMonthBound(parts) == Len(Words(Strip(parts[1]))) = 2
start_month(parts) == Words(Strip(parts[1]))[1]

\* Lines 40-52: which branch builds the end date.
EndShape(end_str) ==
    IF Contains(end_str, Comma)
    THEN LET end_parts_before_comma ==
                 Words(Strip(Split(end_str, Comma)[1]))
         IN  IF Len(end_parts_before_comma) = 2 THEN "month_day"
             ELSE IF Len(end_parts_before_comma) = 1 THEN "day"
             ELSE "other"
    ELSE "no_comma"

\* Line 48 without the start month.
EndDateStrNoMonth(parts, year) ==
    LET end_str == Strip(parts[2])
        shape == EndShape(end_str)
    IN  IF shape = "month_day" THEN end_str
        ELSE IF shape = "day"
        THEN Words(Strip(Split(end_str, Comma)[1]))[1] \o CommaSpace \o year
        ELSE end_str \o CommaSpace \o year

\* Line 52 building the end from the start's month and day.
EndDateStrFromStart(parts, year) ==
    LET end_str == Strip(parts[2])
        shape == EndShape(end_str)
    IN  IF shape = "month_day" THEN end_str
        ELSE IF shape = "day"
        THEN start_month(parts) \o Space
                 \o Words(Strip(Split(end_str, Comma)[1]))[1]
                 \o CommaSpace \o year
        ELSE StartDateStr(parts, year)

\* Lines 44, 48 and 52, for the shapes that build a string.
EndDateStr(parts, year) ==
    LET end_str == Strip(parts[2])
        shape == EndShape(end_str)
    IN  IF shape = "month_day" THEN end_str
        ELSE IF shape = "day"
        THEN start_month(parts) \o Space
                 \o Words(Strip(Split(end_str, Comma)[1]))[1]
                 \o CommaSpace \o year
        ELSE end_str \o CommaSpace \o year

\* Lines 23-57 and 62: the body of the try. kind is "dates" for a pair of
\* dates, "none" for (None, None), "raised" for an exception.
ParseBody(s) ==
    IF ~Contains(s, Dash) THEN NoDates
    ELSE
    LET parts == Split(s, Dash)
        year == YearText(parts)
        shape == EndShape(Strip(parts[2]))
        raised == [kind |-> "raised", start_date |-> 0, end_date |-> 0]
    IN  IF shape = "other" THEN NoDates
        ELSE IF shape = "day" /\ ~StartMonthBound(parts) THEN raised
        ELSE IF ~StrpDateOk(StartDateStr(parts, year)) THEN raised
        ELSE IF ~StrpDateOk(EndDateStr(parts, year)) THEN raised
        ELSE [kind |-> "dates",
              start_date |-> StrpDate(StartDateStr(parts, year)),
              end_date |-> StrpDate(EndDateStr(parts, year))]

\* Lines 21-62: whatever the body raises is caught (lines 58-60).
parse_date_range(s) ==
    LET r == ParseBody(s) IN IF r.kind = "raised" THEN NoDates ELSE r

\* The texts parse_date_range is applied to: a start, a separator, an end
\* and a tail, each from a few shapes, and the two examples of its
\* docstring.
StartTexts ==
    { <<"J", "a", "n", " ", "2", "8">>,
      <<"F", "e", "b", " ", "3">>,
      <<"D", "e", "c", " ", "2", "8">>,
      <<"F", "e", "b", " ", "3", "0">>,
      <<"X", "y", "z", " ", "3">>,
      <<"J", "a", "n">> }
SeparatorTexts == { Dash, <<"-">>, <<" ", " ", "-", " ", " ">> }
EndTexts ==
    { <<"3", "0">>, <<"3">>,
      <<"F", "e", "b", " ", "3">>,
      <<"J", "a", "n", " ", "3">>,
      <<"D", "e", "c", " ", "3", "0">>,
      <<"t", "o", " ", "F", "e", "b", " ", "3">>,
      <<"2", "0", "2", "5">> }
TailTexts ==
    { <<",", " ", "2", "0", "2", "4">>,
      <<",", " ", "2", "0", "2", "5">>,
      <<",", "2", "0", "2", "5">>,
      <<" ", "2", "0", "2", "5">>,
      <<>> }
DocExamples ==
    { <<"N", "o", "v", " ", "2", "4", " ", "-", " ",
        "D", "e", "c", " ", "1", "4", ",", " ", "2", "0", "2", "5">>,
      <<"J", "a", "n", " ", "2", "2", " ", "-", " ",
        "2", "8", ",", " ", "2", "0", "2", "4">> }
DateTexts ==
    { a \o b \o c \o d :
        a \in StartTexts, b \in SeparatorTexts, c \in EndTexts,
        d \in TailTexts }
    \cup { a \o d : a \in StartTexts, d \in TailTexts }
    \cup DocExamples

ParseInit ==
    /\ ScraperStart /\ num_pages = 0
    /\ EventIdle
    /\ date_str \in DateTexts
    /\ parse_pc = "call"
    /\ parsed = NoDates

\* parse_date_range(date_str) runs and returns.
ParseCall ==
    /\ parse_pc = "call"
    /\ parsed' = parse_date_range(date_str)
    /\ parse_pc' = "done"
    /\ UNCHANGED <<scraper_vars, event_vars, date_str>>

ParseNext == ParseCall

ParseSpec == ParseInit /\ [][ParseNext]_vars

(***************************************************************************)
(* scrape_tournaments, filter_last_year and main.                          *)
(***************************************************************************)
\* Rows on the fetched page and hours that may pass during a run.
MaxRows == 2
MaxElapsed == 2

\* main() is entered on 2025-01-29 at 00:00, so the instant 365 days
\* earlier is 2024-01-30 00:00.
EventRunStart == DateTime(2025, 1, 29)

\* After one or two digits starting at j.
DigitsEnd(s, j) == IF j + 1 <= Len(s) /\ IsDigit(s[j + 1]) THEN j + 2 ELSE j + 1

\* (?:\s*-\s*(?:[A-Z][a-z]{2}\s+)?\d{1,2})? tried at k: the position after
\* the group, k itself when the group does not match.
RangeEnd(s, k) ==
    LET a == SkipSpaces(s, k)
    IN  IF a > Len(s) \/ s[a] # "-" THEN k
        ELSE
        LET b == SkipSpaces(s, a + 1)
        IN  IF b > Len(s) THEN k
            ELSE IF IsDigit(s[b]) THEN DigitsEnd(s, b)
            ELSE IF /\ b + 2 <= Len(s)
                    /\ IsUpper(s[b]) /\ IsLower(s[b + 1]) /\ IsLower(s[b + 2])
            THEN LET c == SkipSpaces(s, b + 3)
                 IN  IF c > b + 3 /\ c <= Len(s) /\ IsDigit(s[c])
                     THEN DigitsEnd(s, c) ELSE k
            ELSE k

\* ,\s*202[45] tried at e: the position after it, 0 when it does not match.
YearEnd(s, e) ==
    IF e > Len(s) \/ s[e] # "," THEN 0
    ELSE LET f == SkipSpaces(s, e + 1)
         IN  IF /\ f + 3 <= Len(s)
                /\ s[f] = "2" /\ s[f + 1] = "0" /\ s[f + 2] = "2"
                /\ s[f + 3] \in {"4", "5"}
             THEN f + 4 ELSE 0

\* The pattern of line 115 tried at i: the position after the match, 0
\* when it does not match there.
DateMatchEnd(s, i) ==
    IF ~(/\ i + 2 <= Len(s)
         /\ IsUpper(s[i]) /\ IsLower(s[i + 1]) /\ IsLower(s[i + 2]))
    THEN 0
    ELSE LET j == SkipSpaces(s, i + 3)
         IN  IF j = i + 3 \/ j > Len(s) \/ ~IsDigit(s[j]) THEN 0
             ELSE YearEnd(s, RangeEnd(s, DigitsEnd(s, j)))

\* Lines 115-120: group 1 of the leftmost match, <<>> when re.search
\* finds none.
date_match(s) ==
    IF \E i \in 1..Len(s) : DateMatchEnd(s, i) # 0
    THEN LET i == CHOOSE k \in 1..Len(s) :
                      /\ DateMatchEnd(s, k) # 0
                      /\ \A l \in 1..(k - 1) : DateMatchEnd(s, l) = 0
         IN  SubSeq(s, i, DateMatchEnd(s, i) - 1)
    ELSE <<>>

\* Line 94: the coarse test on the two years.
MentionsYear(s) ==
    \/ Contains(s, <<"2", "0", "2", "4">>)
    \/ Contains(s, <<"2", "0", "2", "5">>)

\* Date cells of the rows of the page. A row's text_content is
\* represented by its date cell.
RowTexts ==
    { <<"J", "a", "n", " ", "2", "8", " ", "-", " ", "3", "0", ",", " ",
        "2", "0", "2", "4">>,
      <<"J", "a", "n", " ", "2", "8", " ", "-", " ", "F", "e", "b", " ", "3",
        ",", " ", "2", "0", "2", "4">>,
      <<"D", "e", "c", " ", "2", "8", " ", "-", " ", "J", "a", "n", " ", "3",
        ",", " ", "2", "0", "2", "5">>,
      <<"J", "a", "n", " ", "2", "8", " ", "-", " ", "3", ",", " ",
        "2", "0", "2", "5">>,
      <<"F", "e", "b", " ", "3", " ", "-", " ", "2", "8", ",", " ",
        "2", "0", "2", "4">>,
      <<"J", "a", "n", " ", "3", " ", "-", " ", "2", "8", ",", " ",
        "2", "0", "2", "4">>,
      <<"J", "a", "n", " ", "2", "8", "-", "3", "0", ",", " ",
        "2", "0", "2", "4">>,
      <<"F", "e", "b", " ", "3", "0", " ", "-", " ", "D", "e", "c", " ", "3",
        ",", " ", "2", "0", "2", "4">>,
      <<"J", "a", "n", " ", "2", "8", ",", " ", "2", "0", "2", "4">>,
      <<"2", "0", "2", "5">>,
      <<"J", "a", "n", " ", "2", "8", " ", "-", " ", "3", "0">> }

\* A gridRow: the name lines 98-109 resolve ("" when the header or a link
\* text longer than 3 characters is missing) and the row's text. The prize
\* and the location (lines 128-136) are copied into the record without
\* influencing any decision and are left out.
Rows ==
    [tournament_name : {"IEM Katowice", "PGL Major"}, text : RowTexts]
    \cup [tournament_name : {""}, text : {<<"J", "a", "n", " ", "2", "8", " ",
              "-", " ", "3", "0", ",", " ", "2", "0", "2", "4">>}]

\* Lines 89-149 for one row: zero or one record.
ScrapeRow(row) ==
    IF ~MentionsYear(row.text) THEN <<>>
    ELSE IF row.tournament_name = "" THEN <<>>
    ELSE IF date_match(row.text) = <<>> THEN <<>>
    ELSE LET date_range == date_match(row.text)
             dates == parse_date_range(date_range)
         IN  IF dates.kind # "dates" THEN <<>>
             ELSE <<[tournament_name |-> row.tournament_name,
                     start_date |-> dates.start_date,
                     end_date |-> dates.end_date,
                     date_range |-> date_range]>>

\* Lines 81-151: the loop over the rows.
RECURSIVE ScrapeRows(_)
ScrapeRows(rows) ==
    IF rows = <<>> THEN <<>>
    ELSE ScrapeRow(Head(rows)) \o ScrapeRows(Tail(rows))

\* list.sort(key=start_date) is stable: a record goes after the records
\* whose start is not later.
RECURSIVE InsertByStart(_, _)
InsertByStart(t, sorted) ==
    IF sorted = <<>> THEN <<t>>
    ELSE IF t.start_date < Head(sorted).start_date THEN <<t>> \o sorted
    ELSE <<Head(sorted)>> \o InsertByStart(t, Tail(sorted))

RECURSIVE SortByStart(_)
SortByStart(ts) ==
    IF ts = <<>> THEN <<>>
    ELSE InsertByStart(ts[Len(ts)], SortByStart(SubSeq(ts, 1, Len(ts) - 1)))

\* Lines 157-167 with the test of line 161 on start_date.
filter_by_start(ts, now) ==
    LET cutoff == now - WindowDays * 24
        InWindow(t) == t.start_date >= cutoff
    IN  SortByStart(SelectSeq(ts, InWindow))

\* Lines 157-167, called at the instant now.
filter_last_year(ts, now) ==
    LET cutoff == now - WindowDays * 24
        InWindow(t) == t.end_date >= cutoff
    IN  SortByStart(SelectSeq(ts, InWindow))

\* The day an instant falls on, as (year, month, day).
DateOf(h) ==
    LET y == CHOOSE k \in 2023..2026 :
                 DateTime(k, 1, 1) <= h /\ h < DateTime(k + 1, 1, 1)
        m == CHOOSE k \in 1..12 :
                 /\ DateTime(y, k, 1) <= h
                 /\ h < DateTime(y, k, DaysInMonth(y, k)) + 24
    IN  [year |-> y, month |-> m,
         day |-> ((h - DateTime(y, m, 1)) \div 24) + 1]

TwoDigits(n) == <<Digits[(n \div 10) + 1], Digits[(n % 10) + 1]>>

\* strftime('%Y-%m-%d')
StrfTime(h) ==
    LET f == DateOf(h)
    IN  TwoDigits(f.year \div 100) \o TwoDigits(f.year % 100) \o <<"-">>
            \o TwoDigits(f.month) \o <<"-">> \o TwoDigits(f.day)

\* Lines 196-212: the frame that is written.
FrameToSave(ts) ==
    [i \in DOMAIN ts |->
        [tournament_name |-> ts[i].tournament_name,
         start_date |-> StrfTime(ts[i].start_date),
         end_date |-> StrfTime(ts[i].end_date),
         date_range |-> ts[i].date_range]]

Pages == UNION {[1..n -> Rows] : n \in 0..MaxRows}

EventInit ==
    /\ ScraperStart /\ num_pages = 0
    /\ ParseIdle
    /\ ev_pc = "start"
    /\ ev_start = EventRunStart
    /\ ev_now = EventRunStart
    /\ tournament_rows = <<>>
    /\ tournaments = <<>>
    /\ shown_one_year_ago = 0
    /\ filter_one_year_ago = 0
    /\ last_year_tournaments = <<>>
    /\ csv = NoCsv
    /\ ev_error = ""

\* Time passes while the run is under way.
Tick ==
    /\ ev_pc \in {"start", "scraped", "shown", "filtered"}
    /\ ev_now - ev_start < MaxElapsed
    /\ ev_now' = ev_now + 1
    /\ UNCHANGED <<scraper_vars, parse_vars, ev_pc, ev_start,
                   tournament_rows, tournaments, shown_one_year_ago,
                   filter_one_year_ago, last_year_tournaments, csv, ev_error>>

\* Line 76: requests.get raises (no connection, time-out); nothing catches.
FetchRaises ==
    /\ ev_pc = "start"
    /\ ev_pc' = "crashed"
    /\ ev_error' = "RequestException"
    /\ UNCHANGED <<scraper_vars, parse_vars, ev_start, ev_now,
                   tournament_rows, tournaments, shown_one_year_ago,
                   filter_one_year_ago, last_year_tournaments, csv>>

\* Line 77: the answer is a 4xx or 5xx and raise_for_status raises.
RaiseForStatus ==
    /\ ev_pc = "start"
    /\ ev_pc' = "crashed"
    /\ ev_error' = "HTTPError"
    /\ UNCHANGED <<scraper_vars, parse_vars, ev_start, ev_now,
                   tournament_rows, tournaments, shown_one_year_ago,
                   filter_one_year_ago, last_year_tournaments, csv>>

\* Lines 76-151 and 175: the page is fetched and its rows are scraped.
ScrapeTournaments ==
    /\ ev_pc = "start"
    /\ \E page \in Pages :
           /\ tournament_rows' = page
           /\ tournaments' = ScrapeRows(page)
    /\ ev_pc' = "scraped"
    /\ UNCHANGED <<scraper_vars, parse_vars, ev_start, ev_now,
                   shown_one_year_ago, filter_one_year_ago,
                   last_year_tournaments, csv, ev_error>>

\* Lines 177-183: no record, main returns.
NoTournaments ==
    /\ ev_pc = "scraped"
    /\ tournaments = <<>>
    /\ ev_pc' = "returned"
    /\ UNCHANGED <<scraper_vars, parse_vars, ev_start, ev_now,
                   tournament_rows, tournaments, shown_one_year_ago,
                   filter_one_year_ago, last_year_tournaments, csv, ev_error>>

\* Lines 185-189: main computes and prints its own one_year_ago.
ShowCutoff ==
    /\ ev_pc = "scraped"
    /\ tournaments # <<>>
    /\ shown_one_year_ago' = ev_now - WindowDays * 24
    /\ ev_pc' = "shown"
    /\ UNCHANGED <<scraper_vars, parse_vars, ev_start, ev_now,
                   tournament_rows, tournaments, filter_one_year_ago,
                   last_year_tournaments, csv, ev_error>>

\* Line 191: filter_last_year computes one_year_ago again and filters.
FilterLastYear ==
    /\ ev_pc = "shown"
    /\ filter_one_year_ago' = ev_now - WindowDays * 24
    /\ last_year_tournaments' = filter_last_year(tournaments, ev_now)
    /\ ev_pc' = "filtered"
    /\ UNCHANGED <<scraper_vars, parse_vars, ev_start, ev_now,
                   tournament_rows, tournaments, shown_one_year_ago,
                   csv, ev_error>>

\* Lines 196-211 with no record left: the frame has no column and
\* df_to_save['start_date'] raises KeyError; nothing catches.
SaveRaises ==
    /\ ev_pc = "filtered"
    /\ last_year_tournaments = <<>>
    /\ ev_pc' = "crashed"
    /\ ev_error' = "KeyError"
    /\ UNCHANGED <<scraper_vars, parse_vars, ev_start, ev_now,
                   tournament_rows, tournaments, shown_one_year_ago,
                   filter_one_year_ago, last_year_tournaments, csv>>

\* Lines 196-221: the frame is formatted and written, main ends.
Save ==
    /\ ev_pc = "filtered"
    /\ last_year_tournaments # <<>>
    /\ csv' = [saved |-> TRUE, rows |-> FrameToSave(last_year_tournaments)]
    /\ ev_pc' = "done"
    /\ UNCHANGED <<scraper_vars, parse_vars, ev_start, ev_now,
                   tournament_rows, tournaments, shown_one_year_ago,
                   filter_one_year_ago, last_year_tournaments, ev_error>>

EventNext ==
    \/ Tick
    \/ FetchRaises
    \/ RaiseForStatus
    \/ ScrapeTournaments
    \/ NoTournaments
    \/ ShowCutoff
    \/ FilterLastYear
    \/ SaveRaises
    \/ Save

EventSpec == EventInit /\ [][EventNext]_vars

(***************************************************************************)
(* Properties of parse_date_range and of the event run.                    *)
(***************************************************************************)
\* A day of the month and a year as they are written.
DayText(d) ==
    IF d < 10 THEN <<Digits[d + 1]>>
    ELSE <<Digits[(d \div 10) + 1], Digits[(d % 10) + 1]>>
YearDigits(y) ==
    <<Digits[(y \div 1000) + 1], Digits[((y \div 100) % 10) + 1],
      Digits[((y \div 10) % 10) + 1], Digits[(y % 10) + 1]>>

\* "<Month> <Day> - <Month> <Day>, <year>" and "<Month> <Day> - <Day>, <year>"
CrossMonthText(m1, d1, m2, d2, y) ==
    MonthNames[m1] \o Space \o DayText(d1) \o Dash
        \o MonthNames[m2] \o Space \o DayText(d2)
        \o CommaSpace \o YearDigits(y)
SameMonthText(m1, d1, d2, y) ==
    MonthNames[m1] \o Space \o DayText(d1) \o Dash
        \o DayText(d2) \o CommaSpace \o YearDigits(y)

\* The months, days and years the texts of DateTexts are written with.
TextMonths == {1, 2, 11, 12}
TextDays == {3, 14, 22, 24, 28, 30}
TextYears == {2024, 2025}

Dates(s, e) == [kind |-> "dates", start_date |-> s, end_date |-> e]

\* C14: parse_date_range gives a cross-month range the two dates written,
\* each with its own month, and a same-month range the two dates with the
\* end in the start's month, all in the year written; a text without
\* " - " gives (None, None) and raises nothing.
C14_ParseDateRange ==
    parse_pc = "done" =>
        /\ ~Contains(date_str, Dash) =>
               parsed = NoDates /\ ParseBody(date_str) = NoDates
        /\ \A y \in TextYears, m1 \in TextMonths, d1, d2 \in TextDays :
               /\ (/\ d1 <= DaysInMonth(y, m1)
                   /\ d2 <= DaysInMonth(y, m1)
                   /\ date_str = SameMonthText(m1, d1, d2, y)) =>
                      parsed = Dates(DateTime(y, m1, d1), DateTime(y, m1, d2))
               /\ \A m2 \in TextMonths :
                      (/\ d1 <= DaysInMonth(y, m1)
                       /\ d2 <= DaysInMonth(y, m2)
                       /\ date_str = CrossMonthText(m1, d1, m2, d2, y)) =>
                          parsed = Dates(DateTime(y, m1, d1),
                                         DateTime(y, m2, d2))

C14_Witness ==
    /\ parse_pc = "done"
    /\ date_str = SameMonthText(1, 22, 28, 2024)
    /\ parsed = Dates(DateTime(2024, 1, 22), DateTime(2024, 1, 28))

\* Order of two texts written by strftime('%Y-%m-%d').
IsoNotAfter(a, b) ==
    \/ a = b
    \/ \E i \in 1..Len(a) :
           /\ \A k \in 1..(i - 1) : a[k] = b[k]
           /\ IsDigit(a[i]) /\ IsDigit(b[i])
           /\ DigitValue(a[i]) < DigitValue(b[i])

\* C15: every record scrape_tournaments collects and every row written to
\* the event file has its start date not after its end date.
C15_StartNotAfterEnd ==
    /\ \A i \in DOMAIN tournaments :
           tournaments[i].start_date <= tournaments[i].end_date
    /\ \A i \in DOMAIN csv.rows :
           IsoNotAfter(csv.rows[i].start_date, csv.rows[i].end_date)

\* C16: no run ends with an exception nobody catches, whatever the fetch
\* answers and however few records are left.
C16_NothingFatal ==
    /\ ev_pc # "crashed"
    /\ ev_error = ""

\* C17: one cutoff per run, the run's start minus 365 days, is what every
\* filter compares with: self.one_year_ago in the price run, the
\* one_year_ago of filter_last_year in the event run.
C17_SingleCutoff ==
    /\ one_year_ago = RunStart - WindowDays * 24
    /\ (ev_pc \in {"filtered", "done"} \/ ev_error = "KeyError") =>
           filter_one_year_ago = ev_start - WindowDays * 24

\* The records of ts, as a bag.
RecordBag(ts) ==
    [t \in Range(ts) |-> Cardinality({i \in DOMAIN ts : ts[i] = t})]

\* C20: filter_last_year returns the records whose end date is at or after
\* the instant of the call minus 365 days, each as often as it was given,
\* in ascending order of start date, records with equal start dates in
\* the order they were given.
C20_FilterLastYear ==
    /\ [][ev_pc' = "filtered" /\ ev_pc = "shown" =>
              filter_one_year_ago' = ev_now - 365 * 24]_vars
    /\ [](ev_pc \in {"filtered", "done"} =>
            LET Qualifies(t) == t.end_date >= filter_one_year_ago
                kept == SelectSeq(tournaments, Qualifies)
                out == last_year_tournaments
            IN  /\ RecordBag(out) = RecordBag(kept)
                /\ \A i, j \in DOMAIN out :
                       i < j => out[i].start_date <= out[j].start_date
                /\ \A t \in Range(out) :
                       LET SameStart(u) == u.start_date = t.start_date
                       IN  SelectSeq(out, SameStart)
                               = SelectSeq(kept, SameStart))

C20_Witness ==
    /\ ev_pc = "filtered"
    /\ Len(tournaments) = 2
    /\ tournaments[1].start_date = tournaments[2].start_date
    /\ tournaments[1].tournament_name # tournaments[2].tournament_name
    /\ tournaments[1].end_date < filter_one_year_ago
    /\ tournaments[2].start_date < filter_one_year_ago
    /\ last_year_tournaments = <<tournaments[2]>>

(***************************************************************************)
(* Further properties of the price run and of parse_date_range.            *)
(***************************************************************************)
\* C21: what extract_from_page_source returns is None or a list with at
\* least one observation, never an empty list; so every identifier in
\* scraped_items has a row in all_price_data and in the table returned.
C21_NeverEmptyList ==
    /\ price_data.is_none \/ price_data.rows # <<>>
    /\ price_data.is_none => price_data = None
    /\ \A i \in DOMAIN scraped_items :
           \E r \in Range(all_price_data) : r.item_name = scraped_items[i]
    /\ result = "df" =>
           \A i \in DOMAIN scraped_items :
               \E r \in Range(file.rows) : r.item_name = scraped_items[i]

C21_Witness ==
    /\ pc = "returned"
    /\ Last(statuses) = 200
    /\ html.marker = "found"
    /\ html.data = <<(<<"May 15 2024 11: +0", "1.50", "10">>)>>
    /\ price_data = None
    /\ scraped_items # <<>>

\* A listing page is fetched in this step.
PageFetched == Len(page_statuses') = Len(page_statuses) + 1

\* A request for an entry's market page is made in this step.
EntryRequested == Len(statuses') = Len(statuses) + 1

\* The iteration of the entry loop ends its work in this step: the entry
\* had no data, or the progressive write of its data returned.
EntryEnded ==
    /\ pc' # pc
    /\ \/ pc = "returned" /\ ~Truthy(price_data)
       \/ pc = "write" /\ saving = "progressive"

\* C22: after every page but the last comes the delay of lines 270-273,
\* items or not, and the next page is fetched only after it; after every
\* entry but the last comes the delay of lines 312-315, data or not, and
\* the next entry is fetched only after it; no delay follows the last page
\* or the last entry; no page is fetched once an entry has been requested.
C22_DelaysBetweenFetches ==
    /\ [][PageFetched =>
              /\ pc = "page" /\ Len(page_statuses) = page_num - 1
              /\ pc' = IF page_num < num_pages
                       THEN "page_delay" ELSE "collected"]_vars
    /\ [][page_num' # page_num =>
              /\ pc = "page_delay" /\ pc' = "page"
              /\ page_num' = page_num + 1
              /\ page_statuses' = page_statuses]_vars
    /\ [](pc = "page_delay" => page_num < num_pages)
    /\ [][EntryRequested => pc = "fetch" /\ idx \in DOMAIN all_items]_vars
    /\ [][EntryEnded =>
              pc' = IF idx < Len(all_items) THEN "item_delay" ELSE "final"]_vars
    /\ [][idx' # idx =>
              /\ pc = "item_delay" /\ pc' = "fetch"
              /\ idx' = idx + 1
              /\ statuses = <<>> /\ statuses' = <<>>]_vars
    /\ [](pc = "item_delay" => idx < Len(all_items))
    /\ [][EntryRequested =>
              page_statuses = <<>> /\ page_num >= num_pages]_vars
    /\ [][PageFetched => idx = 1 /\ statuses = <<>>]_vars

C22_Witness ==
    /\ pc = "final"
    /\ num_pages = 2
    /\ page_num = 2
    /\ Len(all_items) = 2
    /\ idx = 2
    /\ scraped_items = <<all_items[2].name>>

\* The text after the first " - " of s.
EndFragment(s) == Split(s, Dash)[2]

\* C23: when the text after " - " holds no comma parse_date_range returns
\* (None, None): the year is then that whole text and the two strings
\* built from it do not both parse. Every pair of dates returned comes
\* from a text with a comma after " - ".
C23_NoCommaFails ==
    parse_pc = "done" =>
        /\ (Contains(date_str, Dash)
               /\ ~Contains(EndFragment(date_str), Comma)) =>
               /\ parsed = NoDates
               /\ YearText(Split(date_str, Dash))
                      = Strip(EndFragment(date_str))
               /\ ~(/\ StrpDateOk(StartDateStr(Split(date_str, Dash),
                                     Strip(EndFragment(date_str))))
                    /\ StrpDateOk(Strip(EndFragment(date_str)) \o CommaSpace
                                      \o Strip(EndFragment(date_str))))
        /\ parsed.kind = "dates" =>
               /\ Contains(date_str, Dash)
               /\ Contains(EndFragment(date_str), Comma)

C23_Witness ==
    /\ parse_pc = "done"
    /\ date_str = <<"J", "a", "n", " ", "2", "8", " ", "-", " ",
                    "2", "0", "2", "5">>
    /\ StrpDateOk(StartDateStr(Split(date_str, Dash),
                               YearText(Split(date_str, Dash))))
    /\ parsed = NoDates

====
